---------------------------- MODULE Spec2Model ----------------------------
(***************************************************************************)
(* Model of giefstat/time_series/util.py: parse_peaks (peak extraction     *)
(* from a time-delayed transfer-entropy curve, with its significance test) *)
(* and continuously_symbolize (ordinal-pattern symbolization of two series *)
(* over one common index range).                                           *)
(*                                                                         *)
(* Python sequences are 0-based; they are held here as 1-based TLA+        *)
(* sequences, and every position that the code computes is kept 0-based    *)
(* and converted at the point of access (PyGet).  TE values are integers   *)
(* in units of 0.01, so that the default prominence 0.01 is the integer 1. *)
(***************************************************************************)
EXTENDS Integers, Sequences, FiniteSets

VARIABLES
    pc, raised,
    \* continuously_symbolize: parameters, locals, and the positions read
    x, y, m, tau_x, tau_y,
    patterns, idxs, X_embed, Y_embed, X_pos, Y_pos, X, Y,
    \* parse_peaks: parameters and locals
    pp_tau_x, td_lags, td_te_info, ci_bg_ub, thres, distance, prominence,
    td_te_means, td_te_stds, peak_idxs, peak_taus, peak_strengths,
    peak_stds, peak_signifs, series_

symVars == <<x, y, m, tau_x, tau_y, patterns, idxs, X_embed, Y_embed,
             X_pos, Y_pos, X, Y>>

peakVars == <<pp_tau_x, td_lags, td_te_info, ci_bg_ub, thres, distance,
              prominence, td_te_means, td_te_stds, peak_idxs, peak_taus,
              peak_strengths, peak_stds, peak_signifs, series_>>

vars == <<pc, raised, symVars, peakVars>>

\* an optional value: None, or Some(v)
None == << >>

Some(v) == <<v>>

\* ------------------------------------------------------------ bounds
MaxLen == 3
MaxM == 3
MaxTau == 2

\* the values of the series x and of the series y
XVals == {1, 2, 3}

YVals == {1, 2}

\* ------------------------------------------------------------ helpers
Max2(a, b) == IF a >= b THEN a ELSE b

Min2(a, b) == IF a <= b THEN a ELSE b

Range(s) == {s[k] : k \in 1..Len(s)}

SeqsUpTo(S, n) == UNION {[1..k -> S] : k \in 0..n}

RECURSIVE Factorial(_)
Factorial(n) == IF n <= 1 THEN 1 ELSE n * Factorial(n - 1)

\* np.arange(a, b): a, a+1, ..., b-1; empty when b <= a
Arange(a, b) == [k \in 1..Max2(b - a, 0) |-> a + k - 1]

\* numpy indexing of a 1-d array by one integer: -len <= i < len, a negative
\* i counting from the end
PyInBounds(s, i) == (0 - Len(s)) <= i /\ i < Len(s)

PyGet(s, i) == s[(IF i < 0 THEN i + Len(s) ELSE i) + 1]

\* itertools.permutations(pool): tuples in the order of the positions taken
\* from pool, first position varying slowest
RemoveAt(s, i) == SubSeq(s, 1, i - 1) \o SubSeq(s, i + 1, Len(s))

RECURSIVE Flatten(_)
Flatten(ss) == IF ss = << >> THEN << >> ELSE Head(ss) \o Flatten(Tail(ss))

RECURSIVE Permutations(_)
Permutations(pool) ==
    IF pool = << >> THEN << << >> >>
    ELSE Flatten([i \in 1..Len(pool) |->
             LET rest == Permutations(RemoveAt(pool, i))
             IN  [k \in 1..Len(rest) |-> <<pool[i]>> \o rest[k]]])

\* mutant of Patterns: the dictionary numbered in the reverse order
Reverse(s) == [k \in 1..Len(s) |-> s[Len(s) + 1 - k]]

MutPatternsReversed(mm) == Reverse(Permutations(Arange(1, mm + 1)))

\* list(permutations(np.arange(m) + 1))
Patterns(mm) == Permutations(Arange(1, mm + 1))

\* dict_pattern_index[tuple(p)]: the 0-based place of p in patterns
HasPattern(pats, p) == \E i \in 1..Len(pats) : pats[i] = p

PatternIndex(pats, p) == (CHOOSE i \in 1..Len(pats) : pats[i] = p) - 1

\* mutants of Idxs: the smaller delay in place of the larger; the last
\* index dropped
MutIdxsMin(xx, mm, tx, ty) == Arange((mm - 1) * Min2(tx, ty), Len(xx))

MutIdxsShort(xx, mm, tx, ty) == Arange((mm - 1) * Max2(tx, ty), Len(xx) - 1)

\* idxs = np.arange((m - 1) * max(tau_x, tau_y), len(x))
Idxs(xx, mm, tx, ty) == Arange((mm - 1) * Max2(tx, ty), Len(xx))

\* _build_embed_series: the positions read.  Row r starts as <<idxs[r]>>
\* (x[idxs]); pass i of the loop puts column idxs - i*tau in front
\* (np.c_[x[idxs - i * tau], X_embed]).
RECURSIVE EmbedLoop(_, _, _, _, _)
EmbedLoop(ids, mm, tau, i, acc) ==
    IF i >= mm THEN acc
    ELSE EmbedLoop(ids, mm, tau, i + 1,
             [r \in 1..Len(ids) |-> <<ids[r] - i * tau>> \o acc[r]])

EmbedPositions(ids, mm, tau) ==
    EmbedLoop(ids, mm, tau, 1, [r \in 1..Len(ids) |-> <<ids[r]>>])

\* _build_embed_series(x, idxs, m, tau): IndexError when a position is out
\* of bounds; ValueError from reshape(len(X_embed), -1) on an array of size
\* 0 (numpy cannot infer the -1 dimension); else the embedding matrix
BuildEmbedSeries(s, ids, mm, tau) ==
    LET pos == EmbedPositions(ids, mm, tau)
    IN  IF \E r \in 1..Len(pos) : \E c \in 1..Len(pos[r]) :
               ~PyInBounds(s, pos[r][c])
        THEN [err |-> "IndexError", pos |-> pos, val |-> << >>]
        ELSE IF Len(ids) = 0
        THEN [err |-> "ValueError", pos |-> pos, val |-> << >>]
        ELSE [err |-> "none", pos |-> pos,
              val |-> [r \in 1..Len(pos) |->
                         [c \in 1..Len(pos[r]) |-> PyGet(s, pos[r][c])]]]

\* np.argsort(row) + 1: the 1-based columns in ascending order of value.
\* The order of equal values is left to the sort (numpy's default kind is
\* not stable); prio, a permutation of the columns, is the order in which
\* one run of the sort leaves them.  SortPlace(row, prio, c) is the 1-based
\* place of column c in the sorted row.
PermSet(n) == {p \in [1..n -> 1..n] : \A i, j \in 1..n : i # j => p[i] # p[j]}

SortPlace(row, prio, c) ==
    1 + Cardinality({d \in 1..Len(row) :
                        \/ row[d] < row[c]
                        \/ (row[d] = row[c] /\ prio[d] < prio[c])})

\* mutant of Argsort: the rank of each column in place of the columns in
\* ascending order
MutArgsortRanks(row, prio) ==
    [c \in 1..Len(row) |-> SortPlace(row, prio, c)]

Argsort(row, prio) ==
    [k \in 1..Len(row) |->
        CHOOSE c \in 1..Len(row) : SortPlace(row, prio, c) = k]

\* np.argsort(X_embed) + 1: every row sorted along the last axis
ArgsortRows(E, prio) == [r \in 1..Len(E) |-> Argsort(E[r], prio)]

\* ------------------------------------------- continuously_symbolize
Scenario == <<1, 3, 2, 5, 4, 6, 7, 9, 8, 10>>

SymInputs ==
    [x : SeqsUpTo(XVals, MaxLen), y : SeqsUpTo(YVals, MaxLen),
     m : 0..MaxM, tau_x : 0..MaxTau, tau_y : 0..MaxTau]
    \cup {[x |-> Scenario, y |-> Scenario, m |-> 2, tau_x |-> 1, tau_y |-> 1]}

PeaksIdle ==
    /\ pp_tau_x = None /\ td_lags = << >> /\ td_te_info = << >>
    /\ ci_bg_ub = None /\ thres = None /\ distance = None /\ prominence = None
    /\ td_te_means = << >> /\ td_te_stds = << >> /\ peak_idxs = << >>
    /\ peak_taus = << >> /\ peak_strengths = << >> /\ peak_stds = << >>
    /\ peak_signifs = << >> /\ series_ = None

InitSym ==
    /\ \E a \in SymInputs :
          /\ x = a.x /\ y = a.y /\ m = a.m
          /\ tau_x = a.tau_x /\ tau_y = a.tau_y
    /\ pc = "symbolize" /\ raised = "none"
    /\ patterns = << >> /\ idxs = << >>
    /\ X_embed = << >> /\ Y_embed = << >> /\ X_pos = << >> /\ Y_pos = << >>
    /\ X = << >> /\ Y = << >>
    /\ PeaksIdle

\* lines 100-104: the pattern dictionary and the common index range
BuildPatterns ==
    /\ pc = "symbolize"
    /\ patterns' = Patterns(m)
    /\ idxs' = Idxs(x, m, tau_x, tau_y)
    /\ pc' = "embed_x"
    /\ UNCHANGED <<raised, x, y, m, tau_x, tau_y, X_embed, Y_embed, X_pos,
                   Y_pos, X, Y, peakVars>>

\* line 105: X_embed = _build_embed_series(x, idxs, m, tau_x)
EmbedX ==
    /\ pc = "embed_x"
    /\ LET e == BuildEmbedSeries(x, idxs, m, tau_x)
       IN  /\ X_pos' = e.pos
           /\ X_embed' = e.val
           /\ raised' = e.err
           /\ pc' = IF e.err = "none" THEN "embed_y" ELSE "raised"
    /\ UNCHANGED <<x, y, m, tau_x, tau_y, patterns, idxs, Y_embed, Y_pos,
                   X, Y, peakVars>>

\* line 106: Y_embed = _build_embed_series(y, idxs, m, tau_y)
EmbedY ==
    /\ pc = "embed_y"
    /\ LET e == BuildEmbedSeries(y, idxs, m, tau_y)
       IN  /\ Y_pos' = e.pos
           /\ Y_embed' = e.val
           /\ raised' = e.err
           /\ pc' = IF e.err = "none" THEN "symbols" ELSE "raised"
    /\ UNCHANGED <<x, y, m, tau_x, tau_y, patterns, idxs, X_embed, X_pos,
                   X, Y, peakVars>>

\* the symbols of the rows A (np.argsort(..) + 1) under the dictionary, or
\* KeyError when a row is no key of it
Symbols(pats, A) ==
    IF \A r \in 1..Len(A) : HasPattern(pats, A[r])
    THEN [err |-> "none", val |-> [r \in 1..Len(A) |-> PatternIndex(pats, A[r])]]
    ELSE [err |-> "KeyError", val |-> << >>]

\* lines 109-115: the symbols of X, then of Y, and the return of both
\* (flatten leaves a one-dimensional array as it is).  Both argsorts are
\* runs of the same sort and leave equal values in the same order, prio.
Symbolize ==
    /\ pc = "symbols"
    /\ \E prio \in PermSet(Max2(m, 1)) :
          LET sx == Symbols(patterns, ArgsortRows(X_embed, prio))
              sy == Symbols(patterns, ArgsortRows(Y_embed, prio))
          IN  /\ X' = sx.val
              /\ Y' = IF sx.err = "none" THEN sy.val ELSE << >>
              /\ raised' = IF sx.err = "none" THEN sy.err ELSE sx.err
              /\ pc' = IF sx.err = "none" /\ sy.err = "none"
                       THEN "returned" ELSE "raised"
    /\ UNCHANGED <<x, y, m, tau_x, tau_y, patterns, idxs, X_embed, Y_embed,
                   X_pos, Y_pos, peakVars>>

NextSym == BuildPatterns \/ EmbedX \/ EmbedY \/ Symbolize

SpecSym == InitSym /\ [][NextSym]_vars


\* ------------------------------------------------------ parse_peaks
\* the value at 0-based position i
At(v, i) == v[i + 1]

\* the members of s that are in K, in the order of s
RECURSIVE Select(_, _)
Select(s, K) ==
    IF s = << >> THEN << >>
    ELSE (IF Head(s) \in K THEN <<Head(s)>> ELSE << >>) \o Select(Tail(s), K)

RECURSIVE SumSeq(_)
SumSeq(s) == IF s = << >> THEN 0 ELSE Head(s) + SumSeq(Tail(s))

\* scipy.signal.find_peaks, step 1 (_local_maxima_1d): the strict local
\* maxima of v, a plateau counted once at its middle (rounded down); the
\* first and the last sample are never maxima
RECURSIVE PlateauAhead(_, _, _)
PlateauAhead(v, i, a) ==
    IF a < Len(v) - 1 /\ At(v, a) = At(v, i) THEN PlateauAhead(v, i, a + 1) ELSE a

RECURSIVE LocalMaximaFrom(_, _)
LocalMaximaFrom(v, i) ==
    IF i >= Len(v) - 1 THEN << >>
    ELSE IF At(v, i - 1) < At(v, i)
    THEN LET a == PlateauAhead(v, i, i + 1)
         IN  IF At(v, a) < At(v, i)
             THEN <<(i + a - 1) \div 2>> \o LocalMaximaFrom(v, a + 1)
             ELSE LocalMaximaFrom(v, i + 1)
    ELSE LocalMaximaFrom(v, i + 1)

LocalMaxima(v) == LocalMaximaFrom(v, 1)

\* step 2 (height): the peaks at least hmin high
SelectByHeight(v, pks, hmin) == Select(pks, {p \in Range(pks) : At(v, p) >= hmin})

\* step 3 (_select_by_peak_distance): peaks are visited from the highest
\* down, and a visited peak that is still kept removes every other peak
\* closer than d.  Among peaks of equal height the order of the visit is
\* that of an argsort, which fixes no order for equal keys: laterFirst
\* tells whether the later or the earlier of them is visited first.
Before(v, p, q, laterFirst) ==
    \/ At(v, p) > At(v, q)
    \/ (At(v, p) = At(v, q) /\ (IF laterFirst THEN p > q ELSE p < q))

RECURSIVE VisitByDistance(_, _, _, _, _)
VisitByDistance(v, d, laterFirst, todo, keep) ==
    IF todo = {} THEN keep
    ELSE LET p == CHOOSE q \in todo :
                      \A o \in todo \ {q} : Before(v, q, o, laterFirst)
         IN  VisitByDistance(v, d, laterFirst, todo \ {p},
                 IF p \in keep
                 THEN keep \ {q \in keep : q # p /\ q - p < d /\ p - q < d}
                 ELSE keep)

SelectByDistance(v, pks, d, laterFirst) ==
    Select(pks, VisitByDistance(v, d, laterFirst, Range(pks), Range(pks)))

\* step 4 (_peak_prominences, then prominence >= pmin): the height of a
\* peak above the higher of its two bases, each base the lowest sample
\* between the peak and the nearest higher sample on that side, within
\* wlen \div 2 samples of the peak
RECURSIVE BaseMin(_, _, _, _, _, _)
BaseMin(v, peak, i, step, iEnd, lowest) ==
    IF (IF step < 0 THEN iEnd <= i ELSE i <= iEnd) /\ At(v, i) <= At(v, peak)
    THEN BaseMin(v, peak, i + step, step, iEnd, Min2(lowest, At(v, i)))
    ELSE lowest

Prominence(v, peak, wlen) ==
    LET iMin == Max2(peak - wlen \div 2, 0)
        iMax == Min2(peak + wlen \div 2, Len(v) - 1)
    IN  At(v, peak) - Max2(BaseMin(v, peak, peak, 0 - 1, iMin, At(v, peak)),
                           BaseMin(v, peak, peak, 1, iMax, At(v, peak)))

SelectByProminence(v, pks, pmin, wlen) ==
    Select(pks, {p \in Range(pks) : Prominence(v, p, wlen) >= pmin})

\* find_peaks(v, height, distance, prominence, wlen): the peak indices,
\* ascending
FindPeaksOf(v, height, d, pmin, wlen, laterFirst) ==
    SelectByProminence(v,
        SelectByDistance(v, SelectByHeight(v, LocalMaxima(v), height),
                         d, laterFirst),
        pmin, wlen)

\* Python slices of a list: s[:n] for n >= 0, and s[k:] for any k, a
\* negative k counting from the end (and -0 being 0: s[-0:] is s)
PySliceTo(s, n) == SubSeq(s, 1, Min2(n, Len(s)))

PySliceFrom(s, k) ==
    SubSeq(s, (IF k < 0 THEN Max2(Len(s) + k, 0) ELSE Min2(k, Len(s))) + 1, Len(s))

\* line 55: np.append(td_te_means[: _n], td_te_means[-_n :])
EdgeSeries(means, n) == PySliceTo(means, n) \o PySliceFrom(means, 0 - n)

\* a > np.mean(s) + 3 * np.std(s), in exact arithmetic: with K = len(s),
\* S = sum(s) and D = sum((K*v - S)^2), mean = S/K and std = sqrt(D/K^3)
\* (np.std is the root of the mean squared deviation from the mean); the
\* comparison is false for an empty s, whose mean and std are nan
SqDev(s) ==
    SumSeq([k \in 1..Len(s) |-> (Len(s) * s[k] - SumSeq(s)) * (Len(s) * s[k] - SumSeq(s))])

AboveMean3Std(a, s) ==
    /\ Len(s) > 0
    /\ Len(s) * a - SumSeq(s) > 0
    /\ (Len(s) * a - SumSeq(s)) * (Len(s) * a - SumSeq(s)) * Len(s) > 9 * SqDev(s)

\* mutant of Signif: either comparison suffices
MutSignifEither(a, ci, s) == (a > ci) \/ AboveMean3Std(a, s)

\* line 57: signif = (mean > ci_bg_ub) & (mean > _mean + 3 * _std)
Signif(a, ci, s) == (a > ci) /\ AboveMean3Std(a, s)

\* the default of prominence, 0.01, in the unit of the TE values (line 32)
DefaultProminence == 1

\* the (mean, std) of the TE at one lag
TEPairs == {<<0, 1>>, <<1, 2>>}

CIBounds == {0, 1}

Thresholds == {None, Some(0)}

Distances == {None, Some(1)}

Prominences == {None, Some(2)}

MaxLags == 10
MaxPeakTau == 2

PeakInputs ==
    {a \in [pp_tau_x : 1..MaxPeakTau, td_te_info : SeqsUpTo(TEPairs, MaxLags),
            n_lags : 0..(MaxLags + 1), ci_bg_ub : CIBounds, thres : Thresholds,
            distance : Distances, prominence : Prominences] :
        /\ Len(a.td_te_info) >= 1
        /\ a.n_lags >= 1
        /\ a.n_lags - Len(a.td_te_info) \in {0 - 1, 0, 1}}

SymIdle ==
    /\ x = << >> /\ y = << >> /\ m = None /\ tau_x = None /\ tau_y = None
    /\ patterns = << >> /\ idxs = << >>
    /\ X_embed = << >> /\ Y_embed = << >> /\ X_pos = << >> /\ Y_pos = << >>
    /\ X = << >> /\ Y = << >>

InitPeaks ==
    /\ \E a \in PeakInputs :
          /\ pp_tau_x = a.pp_tau_x
          /\ td_lags = Arange(0, a.n_lags)
          /\ td_te_info = a.td_te_info
          /\ ci_bg_ub = a.ci_bg_ub
          /\ thres = a.thres
          /\ distance = a.distance
          /\ prominence = a.prominence
    /\ pc = "parse_peaks" /\ raised = "none"
    /\ td_te_means = << >> /\ td_te_stds = << >> /\ peak_idxs = << >>
    /\ peak_taus = << >> /\ peak_strengths = << >> /\ peak_stds = << >>
    /\ peak_signifs = << >> /\ series_ = None
    /\ SymIdle

\* lines 25-35: the defaults, and the two parallel lists
Defaults ==
    /\ pc = "parse_peaks"
    /\ thres' = IF thres = None THEN Some(ci_bg_ub) ELSE thres
    /\ distance' = IF distance = None THEN Some(2 * pp_tau_x) ELSE distance
    /\ prominence' = IF prominence = None THEN Some(DefaultProminence) ELSE prominence
    /\ td_te_means' = [k \in 1..Len(td_te_info) |-> td_te_info[k][1]]
    /\ td_te_stds' = [k \in 1..Len(td_te_info) |-> td_te_info[k][2]]
    /\ pc' = "find_peaks"
    /\ UNCHANGED <<raised, symVars, pp_tau_x, td_lags, td_te_info, ci_bg_ub,
                   peak_idxs, peak_taus, peak_strengths, peak_stds,
                   peak_signifs, series_>>

\* lines 37-39: find_peaks over the means, wlen = max([2, len(td_lags) // 2])
FindPeaks ==
    /\ pc = "find_peaks"
    /\ \E laterFirst \in BOOLEAN :
          peak_idxs' = FindPeaksOf(td_te_means, thres[1], distance[1], prominence[1],
                                   Max2(2, Len(td_lags) \div 2), laterFirst)
    /\ pc' = "lookup"
    /\ UNCHANGED <<raised, symVars, pp_tau_x, td_lags, td_te_info, ci_bg_ub,
                   thres, distance, prominence, td_te_means, td_te_stds,
                   peak_taus, peak_strengths, peak_stds, peak_signifs, series_>>

\* lines 41-51: the lag, strength and std of each peak; td_lags[p] raises
\* IndexError for a peak index that td_lags does not have; without peaks
\* the empty lists are returned (line 60)
Lookup ==
    /\ pc = "lookup"
    /\ IF peak_idxs = << >>
       THEN /\ pc' = "returned"
            /\ UNCHANGED <<raised, peak_taus, peak_strengths, peak_stds>>
       ELSE IF \E k \in 1..Len(peak_idxs) : ~PyInBounds(td_lags, peak_idxs[k])
       THEN /\ pc' = "raised"
            /\ raised' = "IndexError"
            /\ UNCHANGED <<peak_taus, peak_strengths, peak_stds>>
       ELSE /\ peak_taus' = [k \in 1..Len(peak_idxs) |-> PyGet(td_lags, peak_idxs[k])]
            /\ peak_strengths' =
                  [k \in 1..Len(peak_idxs) |-> PyGet(td_te_means, peak_idxs[k])]
            /\ peak_stds' =
                  [k \in 1..Len(peak_idxs) |-> PyGet(td_te_stds, peak_idxs[k])]
            /\ pc' = "signif"
            /\ UNCHANGED raised
    /\ UNCHANGED <<symVars, pp_tau_x, td_lags, td_te_info, ci_bg_ub, thres,
                   distance, prominence, td_te_means, td_te_stds, peak_idxs,
                   peak_signifs, series_>>

\* lines 53-60: the significance of each peak against the edge bins, and
\* the return
Significance ==
    /\ pc = "signif"
    /\ series_' = EdgeSeries(td_te_means, Len(td_lags) \div 10)
    /\ peak_signifs' =
          [k \in 1..Len(peak_idxs) |->
              Signif(PyGet(td_te_means, peak_idxs[k]), ci_bg_ub, series_')]
    /\ pc' = "returned"
    /\ UNCHANGED <<raised, symVars, pp_tau_x, td_lags, td_te_info, ci_bg_ub,
                   thres, distance, prominence, td_te_means, td_te_stds,
                   peak_idxs, peak_taus, peak_strengths, peak_stds>>

NextPeaks == Defaults \/ FindPeaks \/ Lookup \/ Significance

SpecPeaks == InitPeaks /\ [][NextPeaks]_vars

\* ------------------------------------- claims: continuously_symbolize
ValidParams == m >= 1 /\ tau_x >= 1 /\ tau_y >= 1

FirstValid == (m - 1) * Max2(tau_x, tau_y)

ValidIndexCount ==
    Cardinality({idx \in 0..(Len(x) - 1) : FirstValid <= idx})

Distinct(row) == \A i, j \in 1..Len(row) : i # j => row[i] # row[j]

\* r_j: the rank of the j-th value of the row among its values
RankVector(row) ==
    [j \in 1..Len(row) |-> 1 + Cardinality({k \in 1..Len(row) : row[k] < row[j]})]

\* a_k: the column that holds the k-th smallest value of the row
SortingColumns(row) ==
    [k \in 1..Len(row) |-> CHOOSE j \in 1..Len(row) : RankVector(row)[j] = k]

\* the number of permutations of {1..n} lexicographically before p
RECURSIVE LexIndexFrom(_, _)
LexIndexFrom(p, j) ==
    IF j > Len(p) THEN 0
    ELSE Cardinality({k \in (j + 1)..Len(p) : p[k] < p[j]}) * Factorial(Len(p) - j)
         + LexIndexFrom(p, j + 1)

LexIndex(p) == LexIndexFrom(p, 1)

\* C1: with m >= 1 and tau_x, tau_y >= 1, whenever the call returns, the two
\* symbol sequences have the same length, the number of indices idx with
\* (m-1)*max(tau_x, tau_y) <= idx < len(x).
C1_LengthsEqualValidCount ==
    (pc = "returned" /\ ValidParams) =>
        (Len(X) = Len(Y) /\ Len(X) = ValidIndexCount)

C1_Witness ==
    /\ pc = "returned" /\ ValidParams /\ m >= 2 /\ tau_x # tau_y
    /\ Len(x) = 3 /\ Len(X) = 1 /\ Len(Y) = 1

\* C3 (as claimed): for x = y = [1,3,2,5,4,6,7,9,8,10], m = 2 and
\* tau_x = tau_y = 1 there is one symbol per index idx >= 1, 0 for a
\* descending pair (x[idx-1], x[idx]) and 1 for an ascending pair.
C3_DescendingIsZero ==
    (pc = "returned" /\ x = Scenario /\ y = Scenario /\ m = 2
        /\ tau_x = 1 /\ tau_y = 1) =>
        /\ Len(X) = Len(x) - 1
        /\ \A idx \in 1..(Len(x) - 1) :
              /\ x[idx] > x[idx + 1] => X[idx] = 0
              /\ x[idx] < x[idx + 1] => X[idx] = 1

\* C3 (amended): for m = 2 and tau_x = tau_y = 1 there is one symbol per
\* index idx >= 1, 0 for an ascending pair (x[idx-1], x[idx]) and 1 for a
\* descending pair; the same for y.
C3_AscendingIsZero ==
    (pc = "returned" /\ m = 2 /\ tau_x = 1 /\ tau_y = 1) =>
        /\ Len(X) = Len(x) - 1 /\ Len(Y) = Len(x) - 1
        /\ \A idx \in 1..(Len(x) - 1) :
              /\ x[idx] < x[idx + 1] => X[idx] = 0
              /\ x[idx] > x[idx + 1] => X[idx] = 1
              /\ y[idx] < y[idx + 1] => Y[idx] = 0
              /\ y[idx] > y[idx + 1] => Y[idx] = 1

C3_Witness ==
    /\ pc = "returned" /\ x = Scenario /\ y = Scenario
    /\ m = 2 /\ tau_x = 1 /\ tau_y = 1
    /\ X = <<0, 1, 0, 1, 0, 0, 0, 1, 0>> /\ Y = X

\* C4: when the valid index range is empty (len(x) <= (m-1)*max(tau_x,
\* tau_y), m >= 2, tau_x, tau_y >= 1) the call does not raise, and returns
\* two empty sequences.
C4_EmptyRangeReturnsEmpty ==
    (m >= 2 /\ tau_x >= 1 /\ tau_y >= 1 /\ Len(x) <= FirstValid) =>
        /\ pc # "raised"
        /\ pc = "returned" => (X = << >> /\ Y = << >>)

\* C5: x and y may differ in length: every index embedded is below len(x)
\* and below len(y), and such a call does not fail on a position outside y.
C5_OnlyOverlapUsed ==
    (ValidParams /\ pc # "symbolize") =>
        /\ \A k \in 1..Len(idxs) : idxs[k] < Len(x) /\ idxs[k] < Len(y)
        /\ Len(x) # Len(y) => raised # "IndexError"

\* C8: a call with m < 1, tau_x < 1 or tau_y < 1 is rejected: it never
\* returns symbol sequences.
C8_InvalidRejected ==
    (m < 1 \/ tau_x < 1 \/ tau_y < 1) => pc # "returned"

\* C9 (as claimed): for m >= 2, the symbol of a row of pairwise distinct
\* values is the lexicographic index of the row's rank vector (r_1..r_m).
C9_SymbolIsRankIndex ==
    (m >= 2 /\ tau_x >= 1 /\ tau_y >= 1) =>
        /\ \A r \in 1..Len(X) :
              Distinct(X_embed[r]) => X[r] = LexIndex(RankVector(X_embed[r]))
        /\ \A r \in 1..Len(Y) :
              Distinct(Y_embed[r]) => Y[r] = LexIndex(RankVector(Y_embed[r]))

\* C9 (amended): for m >= 2, the symbol of a row of pairwise distinct values
\* is the lexicographic index of the permutation (a_1..a_m), a_k being the
\* column (1 = oldest) of the row's k-th smallest value: the inverse of the
\* rank vector.
C9_SymbolIsSortingIndex ==
    m >= 2 =>
        /\ \A r \in 1..Len(X) :
              Distinct(X_embed[r]) => X[r] = LexIndex(SortingColumns(X_embed[r]))
        /\ \A r \in 1..Len(Y) :
              Distinct(Y_embed[r]) => Y[r] = LexIndex(SortingColumns(Y_embed[r]))

C9_Witness ==
    /\ pc = "returned" /\ m = 3 /\ tau_x >= 1 /\ tau_y >= 1
    /\ \E r \in 1..Len(X) :
          /\ Distinct(X_embed[r])
          /\ SortingColumns(X_embed[r]) # RankVector(X_embed[r])
          /\ X[r] = LexIndex(SortingColumns(X_embed[r]))

\* C10: with m >= 1, tau_x, tau_y >= 1 and len(y) >= len(x), column j
\* (0-based) of row idx of either embedding matrix is read at position
\* idx - (m-1-j)*tau, which is in 0..len(x)-1, and holds the value there.
C10_ReadsInBounds ==
    (ValidParams /\ Len(y) >= Len(x)) =>
        /\ \A r \in 1..Len(X_pos) :
              /\ Len(X_pos[r]) = m
              /\ \A j \in 0..(m - 1) :
                    /\ X_pos[r][j + 1] = idxs[r] - (m - 1 - j) * tau_x
                    /\ 0 <= X_pos[r][j + 1] /\ X_pos[r][j + 1] < Len(x)
                    /\ X_embed # << >> =>
                          X_embed[r][j + 1] = x[X_pos[r][j + 1] + 1]
        /\ \A r \in 1..Len(Y_pos) :
              /\ Len(Y_pos[r]) = m
              /\ \A j \in 0..(m - 1) :
                    /\ Y_pos[r][j + 1] = idxs[r] - (m - 1 - j) * tau_y
                    /\ 0 <= Y_pos[r][j + 1] /\ Y_pos[r][j + 1] < Len(x)
                    /\ Y_embed # << >> =>
                          Y_embed[r][j + 1] = y[Y_pos[r][j + 1] + 1]

C10_Witness ==
    /\ pc = "returned" /\ ValidParams /\ Len(y) >= Len(x)
    /\ m >= 2 /\ tau_x # tau_y /\ Len(X_pos) >= 1 /\ Len(Y_pos) >= 1

\* ------------------------------------------------ claims: parse_peaks
\* N = floor(len(td_lags) / 10)
EdgeBins == Len(td_lags) \div 10

\* the first N and the last N mean-TE values
ReferenceSample(N) ==
    SubSeq(td_te_means, 1, N)
        \o SubSeq(td_te_means, Len(td_te_means) - N + 1, Len(td_te_means))

\* a > mu + 3*sigma for the mean mu and the standard deviation sigma of s,
\* stated with the moments: with K = len(s), S = sum(s) and Q = sum(s^2),
\* mu = S/K and sigma = sqrt(K*Q - S^2)/K
ExceedsMuPlus3Sigma(a, s) ==
    LET K == Len(s)
        S == SumSeq(s)
        Q == SumSeq([k \in 1..Len(s) |-> s[k] * s[k]])
    IN  /\ K * a > S
        /\ (K * a - S) * (K * a - S) > 9 * (K * Q - S * S)

\* C2: on a lag grid with N = floor(len(td_lags)/10) >= 1, the flag of
\* every returned peak p is true iff mean[p] > ci_bg_ub and
\* mean[p] > mu + 3*sigma, mu and sigma being those of the first N and the
\* last N mean-TE values.
C2_SignificantIffBoth ==
    (pc = "returned" /\ EdgeBins >= 1) =>
        /\ Len(peak_signifs) = Len(peak_idxs)
        /\ \A k \in 1..Len(peak_idxs) :
              peak_signifs[k] =
                 (/\ td_te_means[peak_idxs[k] + 1] > ci_bg_ub
                  /\ ExceedsMuPlus3Sigma(td_te_means[peak_idxs[k] + 1],
                                         ReferenceSample(EdgeBins)))

C2_Witness ==
    /\ pc = "returned" /\ EdgeBins >= 1
    /\ \E k \in 1..Len(peak_idxs) :
          /\ td_te_means[peak_idxs[k] + 1] > ci_bg_ub
          /\ ~ExceedsMuPlus3Sigma(td_te_means[peak_idxs[k] + 1],
                                  ReferenceSample(EdgeBins))
          /\ peak_signifs[k] = FALSE

\* C6: when len(td_lags) < 10, so that N = 0, the reference sample of the
\* significance test of every returned peak is empty.
C6_ShortGridSampleEmpty ==
    (pc = "returned" /\ Len(td_lags) < 10 /\ peak_idxs # << >>) =>
        series_ = << >>

\* C7: a call in which td_te_info and td_lags differ in length is rejected:
\* it never returns a result.
C7_ShapeMismatchRejected ==
    Len(td_te_info) # Len(td_lags) => pc # "returned"

=============================================================================
